---------------------------- MODULE Spec2Model ----------------------------
(***************************************************************************)
(* The 4-agents backend: the /analyze streaming endpoint (main.py          *)
(* analyze_problem.generate), the stage pipeline it drives                 *)
(* (agents/workflow.py AgentWorkflow.process_problem_stream) and the       *)
(* process-wide kernel state (kernel_hard_stop, current_agent,             *)
(* kernel_stop_history) with its /kernel endpoints.                        *)
(*                                                                         *)
(* One action is one run of a coroutine between two suspension points:     *)
(* a request handler without await is atomic; generate() is suspended at   *)
(* every frame it yields to the response stream, while the generation      *)
(* call is awaited, and while the HTTP poll of /kernel is in flight.       *)
(***************************************************************************)
EXTENDS Integers, Sequences, FiniteSets, TLC

\* ---------------------------------------------------------------- bounds
\* one /analyze request, served alone (Spec)
MaxLedger == 2        \* calls of /kernel/stop and /kernel/reset
MaxDegraded == 1      \* generation calls that fall back to the mock text
\* two /analyze requests, served concurrently (SpecTwo)
MaxLedgerTwo == 1     \* calls of /kernel/stop and /kernel/reset
MaxBegun == 2         \* where the count of stages begun after a stop saturates

\* the /analyze requests of the model, numbered in the order they start
Runs == {1, 2}
None == "None"        \* Python None / a key that is absent

\* texts are records with a kind; these are the texts that are no response
NoText == [kind |-> "None"]     \* no "response" key
EmptyText == [kind |-> ""]      \* the default of context.get(key, "")
NA == [kind |-> "N/A"]          \* the default of all_responses.get(key, 'N/A')

\* ------------------------------------------------- the fixed stage list
NumStages == 5
\* "agent" field of the events of stage k (workflow.py 75,117,159,201,243)
StageAgent == <<"analysis", "research", "critic", "monitor", "summary">>
\* key written into the run context by stage k (workflow.py 89,131,173,215)
ContextKey == <<"analysis", "research", "critique", "monitor">>
\* self.name of the agent whose _call_llm serves stage k; the summary is
\* generated through the analysis agent (workflow.py 316)
AgentName == <<"Analysis Agent", "Research Agent", "Critic Agent",
               "Monitor Agent", "Analysis Agent">>
\* length of the fixed text that precedes the problem in the prompt of
\* stage k (analysis_agent.py 40-42, research_agent.py 46-48,
\* critic_agent.py 49-51, monitor_agent.py 25-27, workflow.py 285-287)
LeadIn == <<50, 84, 65, 81, 103>>
MockPrefix == 100     \* base_agent.py 250: prompt[:100]

\* problem submitted by run r: distinct runs submit distinct problems
ProblemOf(r) == <<"problem", r>>

VARIABLES
  kernel_hard_stop,       \* main.py 33
  current_agent,          \* main.py 36
  kernel_stop_history,    \* main.py 39
  pc,                     \* per run: where generate() is suspended
  stage,                  \* per run: index of the stage in progress
  context,                \* per run: workflow.py 52 context
  should_continue,        \* per run: workflow.py 101 result of the poll
  all_responses,          \* per run: main.py 109
  final_kernel_decision,  \* per run: main.py 110
  stream,                 \* per run: frames yielded by generate()
  saved,                  \* per run: arguments of the calls of
                          \* db_client.save_analysis
  degraded,               \* generation calls that returned the mock text
  \* history variables, written by no code: what has happened to run r
  \* since /kernel/stop was called while r was in flight
  after_stop,             \* per run: "no" such call, or what followed it
  begun_after,            \* per run: stages begun after it while the flag
                          \* stays set and no poll fails, at most MaxBegun
  calls,                  \* calls of /kernel/stop and of /kernel/reset so far
  last_marked,            \* agent of the latest thinking or complete update
                          \* generate() has seen since the latest run start
  answer                  \* the latest answer of GET /kernel, of
                          \* GET /kernel/history or of the export

progVars == <<kernel_hard_stop, current_agent, kernel_stop_history, pc, stage,
              context, should_continue, all_responses, final_kernel_decision,
              stream, saved, degraded>>
histVars == <<after_stop, begun_after>>
callVars == <<calls, last_marked>>
readVars == <<answer>>
vars == <<progVars, histVars, callVars, readVars>>

\* ------------------------------------------------------------- helpers
\* dict.get(key, default)
Get(d, key, default) == IF key \in DOMAIN d THEN d[key] ELSE default

\* d[key] = value
Put(d, key, value) ==
  [x \in (DOMAIN d) \cup {key} |-> IF x = key THEN value ELSE d[x]]

EmptyDict == [x \in {} |-> NoText]

\* text[:500] (monitor_agent.py 30-32)
First500(text) == IF text = NA THEN text ELSE [kind |-> "first500", of |-> text]

\* the value of a numeric key an update does not have; a number n it has
\* is <<n>>
Absent == <<>>

\* the update dictionaries yielded by process_problem_stream and the error
\* update of generate(); absent keys are None
Event(agent, status, response, stopped_agent, done, kernel_decision) ==
  [agent |-> agent, status |-> status, response |-> response,
   stopped_agent |-> stopped_agent, done |-> done,
   kernel_decision |-> kernel_decision, stage |-> Absent, iteration |-> Absent]

\* updates numbered from zero
NumberedFromZero(k, update) ==
  [update EXCEPT !.stage = <<k - 1>>,
                 !.iteration = IF k < NumStages THEN <<0>> ELSE Absent]

\* the "stage" and "iteration" keys of the thinking and complete updates
\* of stage k; the summary's updates have no "iteration"
\* (workflow.py 76-77, 93-94, ..., 244, 258)
Numbered(k, update) ==
  [update EXCEPT !.stage = <<k>>,
                 !.iteration = IF k < NumStages THEN <<1>> ELSE Absent]

StartingEvent == Event("system", "starting", NoText, None, FALSE, None)
ThinkingEvent(k) ==
  Numbered(k, Event(StageAgent[k], "thinking", NoText, None, FALSE, None))
\* complete updates that all carry the decision of a normal completion
CompleteEventAllNormal(k, response) ==
  Numbered(k, Event(StageAgent[k], "complete", response, None, k = NumStages,
                    "N"))

CompleteEvent(k, response) ==
  Numbered(k, Event(StageAgent[k], "complete", response, None, k = NumStages,
                    IF k = NumStages THEN "N" ELSE None))
\* a stopped update that names the stage that would have come next
StoppedEventNext(k) ==
  Event("system", "stopped", NoText,
        StageAgent[IF k < NumStages THEN k + 1 ELSE k], FALSE, "L")

StoppedEvent(k) == Event("system", "stopped", NoText, StageAgent[k], FALSE, "L")
ErrorEvent == Event("error", "error", NoText, None, FALSE, None)

\* a summary prompt that looks the critique up under the critic's name
PromptWrongKey(k, ctx) ==
  CASE k = 1 -> [problem |-> ctx.problem]
    [] k = 2 -> [problem |-> ctx.problem,
                 analysis |-> Get(ctx.top, "analysis", EmptyText)]
    [] k = 3 -> [problem |-> ctx.problem,
                 analysis |-> Get(ctx.top, "analysis", EmptyText),
                 research |-> Get(ctx.top, "research", EmptyText)]
    [] k = 4 -> [problem |-> ctx.problem,
                 analysis |-> First500(Get(ctx.all_responses, "analysis", NA)),
                 research |-> First500(Get(ctx.all_responses, "research", NA)),
                 critique |-> First500(Get(ctx.all_responses, "critique", NA))]
    [] OTHER -> [problem |-> ctx.problem,
                 analysis |-> Get(ctx.all_responses, "analysis", NA),
                 research |-> Get(ctx.all_responses, "research", NA),
                 critique |-> Get(ctx.all_responses, "critic", NA),
                 monitor |-> Get(ctx.all_responses, "monitor", NA),
                 ratings |-> Get(ctx.all_responses, "ratings", NA)]

\* the prompt a stage builds from the run context
\* (analysis_agent.py 21-51, research_agent.py, critic_agent.py,
\*  monitor_agent.py 21-41, workflow.py 279-314)
Prompt(k, ctx) ==
  CASE k = 1 -> [problem |-> ctx.problem]
    [] k = 2 -> [problem |-> ctx.problem,
                 analysis |-> Get(ctx.top, "analysis", EmptyText)]
    [] k = 3 -> [problem |-> ctx.problem,
                 analysis |-> Get(ctx.top, "analysis", EmptyText),
                 research |-> Get(ctx.top, "research", EmptyText)]
    [] k = 4 -> [problem |-> ctx.problem,
                 analysis |-> First500(Get(ctx.all_responses, "analysis", NA)),
                 research |-> First500(Get(ctx.all_responses, "research", NA)),
                 critique |-> First500(Get(ctx.all_responses, "critique", NA))]
    [] OTHER -> [problem |-> ctx.problem,
                 analysis |-> Get(ctx.all_responses, "analysis", NA),
                 research |-> Get(ctx.all_responses, "research", NA),
                 critique |-> Get(ctx.all_responses, "critique", NA),
                 monitor |-> Get(ctx.all_responses, "monitor", NA),
                 ratings |-> Get(ctx.all_responses, "ratings", NA)]

\* a fallback text that numbers the fallbacks of the process
MockResponseCounted(k, prompt) ==
  [kind |-> "mock", name |-> AgentName[k],
   head |-> IF LeadIn[k] < MockPrefix THEN <<k, prompt.problem>> ELSE <<k>>,
   number |-> degraded]

\* BaseAgent._mock_response: the agent's name and the first 100 characters
\* of the prompt, which reach into the problem only when the fixed lead-in
\* of the prompt is shorter
MockResponse(k, prompt) ==
  [kind |-> "mock", name |-> AgentName[k],
   head |-> IF LeadIn[k] < MockPrefix THEN <<k, prompt.problem>> ELSE <<k>>]

\* the text the generation service returns for a prompt
LlmResponse(k, prompt) ==
  [kind |-> "llm", name |-> AgentName[k], prompt |-> prompt]

\* a call that returns nothing when the service fails
CallLlmNone(k, prompt, ok) ==
  IF ok THEN LlmResponse(k, prompt) ELSE NoText

\* BaseAgent._call_llm: the service's text, or the mock text when there is
\* no client or the call raises
CallLlm(k, prompt, ok) ==
  IF ok THEN LlmResponse(k, prompt) ELSE MockResponse(k, prompt)

\* a poll that reads a key the answer of /kernel does not have
CheckKernelNoKey(ok, flag) == TRUE

\* a poll that takes "stop" for the answer to continue on
CheckKernelInverted(ok, flag) == IF ok THEN flag ELSE TRUE

\* a poll that takes a failed request for the answer to stop
CheckKernelFailClosed(ok, flag) == IF ok THEN ~flag ELSE FALSE

\* AgentWorkflow._check_kernel over HTTP: the answer of GET /kernel, or
\* True when the request fails
CheckKernel(ok, flag) == IF ok THEN ~flag ELSE TRUE

\* a tracking that takes the agent of every update, "system" included
TrackAgentAny(update, agent) ==
  IF update.agent # None THEN update.agent ELSE agent

\* main.py 114-124: tracking of the current agent and of the stop history
\* for one update
TrackAgent(update, agent) ==
  IF update.agent # None /\ update.agent # "system"
     /\ update.status \in {"thinking", "complete"}
  THEN update.agent
  ELSE agent

TrackHistory(update, history) ==
  IF update.agent # None /\ update.agent # "system"
     /\ update.status = "stopped" /\ update.stopped_agent # None
     /\ Len(history) > 0 /\ history[Len(history)].action = "stop"
  THEN [history EXCEPT ![Len(history)].stopped_agent = update.stopped_agent]
  ELSE history

\* a tracking that keeps the first decision an update carried
TrackDecisionFirst(update, decision) ==
  IF decision # None THEN decision ELSE update.kernel_decision

\* main.py 127-128
TrackDecision(update, decision) ==
  IF update.kernel_decision # None THEN update.kernel_decision ELSE decision

\* main.py 131-132
CollectResponse(update, responses) ==
  IF update.status = "complete" /\ update.response # NoText
  THEN Put(responses, update.agent, update.response)
  ELSE responses

\* main.py 139-151
Result(r, responses, decision) ==
  LET d == IF decision = None THEN "N" ELSE decision IN
  [problem |-> context[r].problem, responses |-> responses,
   final_insights |-> Get(responses, "final", EmptyText),
   status |-> IF d = "N" THEN "completed" ELSE "stopped",
   kernel_decision |-> d]


\* ------------------------------------------------------------- state
\* before generate() has run: no context, nothing handed to save_analysis
NoContext == [problem |-> None, top |-> EmptyDict, all_responses |-> EmptyDict]
NotSaved == <<>>

InFlight(r) == pc[r] \notin {"idle", "done"}

\* what a client holds of the answers of the three reading handlers: the
\* status of GET /kernel, the history and count of GET /kernel/history,
\* the rows of the exported sheet
Answer(kind, status, history, count, rows) ==
  [kind |-> kind, status |-> status, history |-> history, count |-> count,
   rows |-> rows]

NoAnswer == Answer("none", None, <<>>, 0, <<>>)

Init ==
  /\ kernel_hard_stop = FALSE
  /\ current_agent = None
  /\ kernel_stop_history = <<>>
  /\ pc = [r \in Runs |-> "idle"]
  /\ stage = [r \in Runs |-> 0]
  /\ context = [r \in Runs |-> NoContext]
  /\ should_continue = [r \in Runs |-> TRUE]
  /\ all_responses = [r \in Runs |-> EmptyDict]
  /\ final_kernel_decision = [r \in Runs |-> None]
  /\ stream = [r \in Runs |-> <<>>]
  /\ saved = [r \in Runs |-> NotSaved]
  /\ degraded = 0
  /\ after_stop = [r \in Runs |-> "no"]
  /\ begun_after = [r \in Runs |-> 0]
  /\ calls = [stop |-> 0, reset |-> 0]
  /\ last_marked = None
  /\ answer = NoAnswer

\* after_stop[r], for a run r in flight:
\*   "no"       /kernel/stop has not been called since r started
\*   "armed"    it was called, the flag has stayed set, r has not polled since
\*   "seen"     a poll of r was answered while the flag had stayed set
\*   "failed"   every poll of r since has failed, the flag has stayed set
\*   "cleared"  the flag was cleared (reset, a run start) before r saw it
\* /kernel/stop is called
NoteStop ==
  /\ after_stop' = [q \in Runs |->
       IF InFlight(q) /\ after_stop[q] \in {"no", "cleared"} THEN "armed"
       ELSE after_stop[q]]
  /\ begun_after' = [q \in Runs |->
       IF InFlight(q) /\ after_stop[q] = "cleared" THEN 0 ELSE begun_after[q]]

\* the flag is set to False
NoteCleared ==
  /\ after_stop' = [q \in Runs |->
       IF InFlight(q) /\ after_stop[q] \in {"armed", "failed"} THEN "cleared"
       ELSE after_stop[q]]
  /\ begun_after' = [q \in Runs |->
       IF InFlight(q) /\ after_stop[q] \in {"armed", "failed"} THEN 0
       ELSE begun_after[q]]

\* a poll of run r is answered (ok) or fails
NotePoll(r, ok) ==
  /\ after_stop' = [after_stop EXCEPT ![r] =
       IF @ \in {"armed", "failed"} THEN (IF ok THEN "seen" ELSE "failed")
       ELSE @]
  /\ begun_after' = [begun_after EXCEPT ![r] =
       IF after_stop[r] = "armed" /\ ~ok THEN 0 ELSE @]

\* a stage of run r begins
NoteBegun(r) ==
  begun_after' = [begun_after EXCEPT ![r] =
    IF after_stop[r] \in {"armed", "seen"} /\ @ < MaxBegun THEN @ + 1 ELSE @]

\* generate() sees an update of the workflow
NoteUpdate(update) ==
  last_marked' = IF update.status \in {"thinking", "complete"}
                 THEN update.agent ELSE last_marked

\* main.py 112-137: the body of the loop of generate() for one update of
\* run r, up to the frame it yields
Forward(r, update) ==
  /\ NoteUpdate(update)
  /\ current_agent' = TrackAgent(update, current_agent)
  /\ kernel_stop_history' = TrackHistory(update, kernel_stop_history)
  /\ final_kernel_decision' =
       [final_kernel_decision EXCEPT ![r] = TrackDecision(update, @)]
  /\ all_responses' = [all_responses EXCEPT ![r] = CollectResponse(update, @)]
  /\ stream' = [stream EXCEPT ![r] = Append(@, update)]

\* a generate() that leaves the flag as it finds it
StartNoReset(r) ==
  /\ calls' = calls /\ last_marked' = None
  /\ UNCHANGED readVars
  /\ pc[r] = "idle"
  /\ \A q \in Runs : q < r => pc[q] # "idle"
  /\ current_agent' = None
  /\ context' = [context EXCEPT ![r] =
       [problem |-> ProblemOf(r), top |-> EmptyDict, all_responses |-> EmptyDict]]
  /\ all_responses' = [all_responses EXCEPT ![r] = EmptyDict]
  /\ final_kernel_decision' = [final_kernel_decision EXCEPT ![r] = None]
  /\ stream' = [stream EXCEPT ![r] = Append(@, StartingEvent)]
  /\ stage' = [stage EXCEPT ![r] = 1]
  /\ pc' = [pc EXCEPT ![r] = "think"]
  /\ UNCHANGED <<kernel_hard_stop, kernel_stop_history, should_continue, saved,
                 degraded, histVars>>

\* a generate() that records the clearing of the flag in the history
StartLogged(r) ==
  /\ calls' = calls /\ last_marked' = None
  /\ UNCHANGED readVars
  /\ pc[r] = "idle"
  /\ \A q \in Runs : q < r => pc[q] # "idle"
  /\ kernel_hard_stop' = FALSE
  /\ current_agent' = None
  /\ kernel_stop_history' =
       IF kernel_hard_stop
       THEN Append(kernel_stop_history,
              [action |-> "reset", stopped_agent |-> None, status |-> "deactivated"])
       ELSE kernel_stop_history
  /\ context' = [context EXCEPT ![r] =
       [problem |-> ProblemOf(r), top |-> EmptyDict, all_responses |-> EmptyDict]]
  /\ all_responses' = [all_responses EXCEPT ![r] = EmptyDict]
  /\ final_kernel_decision' = [final_kernel_decision EXCEPT ![r] = None]
  /\ stream' = [stream EXCEPT ![r] = Append(@, StartingEvent)]
  /\ stage' = [stage EXCEPT ![r] = 1]
  /\ pc' = [pc EXCEPT ![r] = "think"]
  /\ NoteCleared
  /\ UNCHANGED <<should_continue, saved, degraded>>

\* POST /analyze, generate() up to its first frame: main.py 103-110,
\* workflow.py 52-68
StartWith(r, problem) ==
  /\ calls' = calls /\ last_marked' = None
  /\ UNCHANGED readVars
  /\ pc[r] = "idle"
  /\ \A q \in Runs : q < r => pc[q] # "idle"
  /\ kernel_hard_stop' = FALSE
  /\ current_agent' = TrackAgent(StartingEvent, None)
  /\ kernel_stop_history' = TrackHistory(StartingEvent, kernel_stop_history)
  /\ context' = [context EXCEPT ![r] =
       [problem |-> problem, top |-> EmptyDict, all_responses |-> EmptyDict]]
  /\ all_responses' = [all_responses EXCEPT ![r] =
       CollectResponse(StartingEvent, EmptyDict)]
  /\ final_kernel_decision' = [final_kernel_decision EXCEPT ![r] =
       TrackDecision(StartingEvent, None)]
  /\ stream' = [stream EXCEPT ![r] = Append(@, StartingEvent)]
  /\ stage' = [stage EXCEPT ![r] = 1]
  /\ pc' = [pc EXCEPT ![r] = "think"]
  /\ NoteCleared
  /\ UNCHANGED <<should_continue, saved, degraded>>

\* POST /analyze with the problem of request r
Start(r) == StartWith(r, ProblemOf(r))

\* a first stage that polls the kernel before its generation call
ThinkingPolled(r) ==
  /\ calls' = calls
  /\ UNCHANGED readVars
  /\ pc[r] = "think"
  /\ Forward(r, ThinkingEvent(stage[r]))
  /\ pc' = [pc EXCEPT ![r] = "poll"]
  /\ NoteBegun(r)
  /\ UNCHANGED <<kernel_hard_stop, stage, context, should_continue, saved,
                 degraded, after_stop>>

\* workflow.py 70-81: the thinking update of the first stage
Thinking(r) ==
  /\ calls' = calls
  /\ UNCHANGED readVars
  /\ pc[r] = "think"
  /\ Forward(r, ThinkingEvent(stage[r]))
  /\ pc' = [pc EXCEPT ![r] = "call"]
  /\ NoteBegun(r)
  /\ UNCHANGED <<kernel_hard_stop, stage, context, should_continue, saved,
                 degraded, after_stop>>

\* a workflow whose stages all work on one context, that of the first run
GenerateShared(r, ok, maxDegraded) ==
  /\ calls' = calls
  /\ UNCHANGED readVars
  /\ pc[r] = "call"
  /\ ok \/ degraded < maxDegraded
  /\ LET k == stage[r]
         response == CallLlm(k, Prompt(k, context[1]), ok)
     IN /\ context' = [context EXCEPT ![1] =
               IF k < NumStages
               THEN [@ EXCEPT !.top = Put(@, ContextKey[k], response),
                              !.all_responses = Put(@, ContextKey[k], response)]
               ELSE @]
        /\ Forward(r, CompleteEvent(k, response))
  /\ degraded' = IF ok THEN degraded ELSE degraded + 1
  /\ pc' = [pc EXCEPT ![r] = "poll"]
  /\ UNCHANGED <<kernel_hard_stop, stage, should_continue, saved, histVars>>

\* a stage that calls the service again after a fallback
GenerateRetry(r, ok, maxDegraded) ==
  /\ calls' = calls
  /\ UNCHANGED readVars
  /\ pc[r] = "call"
  /\ ok \/ degraded < maxDegraded
  /\ LET k == stage[r]
         response == CallLlm(k, Prompt(k, context[r]), ok)
     IN /\ context' = [context EXCEPT ![r] =
               IF k < NumStages
               THEN [@ EXCEPT !.top = Put(@, ContextKey[k], response),
                              !.all_responses = Put(@, ContextKey[k], response)]
               ELSE @]
        /\ Forward(r, CompleteEvent(k, response))
  /\ degraded' = IF ok THEN degraded ELSE degraded + 1
  /\ pc' = [pc EXCEPT ![r] = IF ok THEN "poll" ELSE "call"]
  /\ UNCHANGED <<kernel_hard_stop, stage, should_continue, saved, histVars>>

\* workflow.py 83-98 (and 125-140, 167-182, 209-224, 250-263): the
\* generation call of the stage returns, its result is recorded in the
\* context and the complete update is yielded
Generate(r, ok, maxDegraded) ==
  /\ calls' = calls
  /\ UNCHANGED readVars
  /\ pc[r] = "call"
  /\ ok \/ degraded < maxDegraded
  /\ LET k == stage[r]
         response == CallLlm(k, Prompt(k, context[r]), ok)
     IN /\ context' = [context EXCEPT ![r] =
               IF k < NumStages
               THEN [@ EXCEPT !.top = Put(@, ContextKey[k], response),
                              !.all_responses = Put(@, ContextKey[k], response)]
               ELSE @]
        /\ Forward(r, CompleteEvent(k, response))
  /\ degraded' = IF ok THEN degraded ELSE degraded + 1
  /\ pc' = [pc EXCEPT ![r] = "poll"]
  /\ UNCHANGED <<kernel_hard_stop, stage, should_continue, saved, histVars>>

\* a workflow that does not poll after the summary
PollNotSummary(r, ok) ==
  /\ UNCHANGED callVars
  /\ UNCHANGED readVars
  /\ pc[r] = "poll"
  /\ should_continue' = [should_continue EXCEPT ![r] =
       IF stage[r] < NumStages THEN CheckKernel(ok, kernel_hard_stop) ELSE TRUE]
  /\ pc' = [pc EXCEPT ![r] = "decide"]
  /\ NotePoll(r, ok)
  /\ UNCHANGED <<kernel_hard_stop, current_agent, kernel_stop_history, stage,
                 context, all_responses, final_kernel_decision, stream, saved,
                 degraded>>

\* workflow.py 101 (143, 185, 227, 267) with _check_kernel 35-45 and the
\* GET /kernel handler main.py 52-61: the poll is answered (ok) or fails
Poll(r, ok) ==
  /\ UNCHANGED callVars
  /\ UNCHANGED readVars
  /\ pc[r] = "poll"
  /\ should_continue' = [should_continue EXCEPT ![r] =
       CheckKernel(ok, kernel_hard_stop)]
  /\ pc' = [pc EXCEPT ![r] = "decide"]
  /\ NotePoll(r, ok)
  /\ UNCHANGED <<kernel_hard_stop, current_agent, kernel_stop_history, stage,
                 context, all_responses, final_kernel_decision, stream, saved,
                 degraded>>

\* a stop branch that waits for the flag to be cleared: it polls again
StoppedWait(r) ==
  /\ UNCHANGED callVars
  /\ UNCHANGED readVars
  /\ pc[r] = "decide"
  /\ ~should_continue[r]
  /\ pc' = [pc EXCEPT ![r] = "poll"]
  /\ UNCHANGED <<kernel_hard_stop, current_agent, kernel_stop_history, stage,
                 context, should_continue, all_responses,
                 final_kernel_decision, stream, saved, degraded, histVars>>

\* a stop branch that yields the stopped update and lacks the return
StoppedNoReturn(r) ==
  /\ calls' = calls
  /\ UNCHANGED readVars
  /\ pc[r] = "decide"
  /\ ~should_continue[r]
  /\ Forward(r, StoppedEvent(stage[r]))
  /\ pc' = [pc EXCEPT ![r] = IF stage[r] < NumStages THEN "decide" ELSE "finish"]
  /\ should_continue' = [should_continue EXCEPT ![r] = TRUE]
  /\ UNCHANGED <<kernel_hard_stop, stage, context, saved, degraded, histVars>>

\* a stop branch that takes the stop for itself: it clears the flag
StoppedConsumes(r) ==
  /\ calls' = calls
  /\ UNCHANGED readVars
  /\ pc[r] = "decide"
  /\ ~should_continue[r]
  /\ Forward(r, StoppedEvent(stage[r]))
  /\ kernel_hard_stop' = FALSE
  /\ pc' = [pc EXCEPT ![r] = "finish"]
  /\ UNCHANGED <<stage, context, should_continue, saved, degraded, histVars>>

\* workflow.py 102-110 (144-152, 186-194, 228-236, 268-277)
Stopped(r) ==
  /\ calls' = calls
  /\ UNCHANGED readVars
  /\ pc[r] = "decide"
  /\ ~should_continue[r]
  /\ Forward(r, StoppedEvent(stage[r]))
  /\ pc' = [pc EXCEPT ![r] = "finish"]
  /\ UNCHANGED <<kernel_hard_stop, stage, context, should_continue, saved,
                 degraded, histVars>>

\* a workflow that starts the next stage whatever the poll said
NextStageUnchecked(r) ==
  /\ calls' = calls
  /\ UNCHANGED readVars
  /\ pc[r] = "decide"
  /\ stage[r] < NumStages
  /\ stage' = [stage EXCEPT ![r] = @ + 1]
  /\ Forward(r, ThinkingEvent(stage[r] + 1))
  /\ pc' = [pc EXCEPT ![r] = "call"]
  /\ NoteBegun(r)
  /\ UNCHANGED <<kernel_hard_stop, context, should_continue, saved, degraded,
                 after_stop>>

\* a workflow that leaves out the research stage
NextStageSkip(r) ==
  /\ calls' = calls
  /\ UNCHANGED readVars
  /\ pc[r] = "decide"
  /\ should_continue[r]
  /\ stage[r] < NumStages
  /\ stage' = [stage EXCEPT ![r] = IF @ = 1 THEN 3 ELSE @ + 1]
  /\ Forward(r, ThinkingEvent(IF stage[r] = 1 THEN 3 ELSE stage[r] + 1))
  /\ pc' = [pc EXCEPT ![r] = "call"]
  /\ NoteBegun(r)
  /\ UNCHANGED <<kernel_hard_stop, context, should_continue, saved, degraded,
                 after_stop>>

\* workflow.py 112-123 (154-165, 196-207, 238-248): the next stage starts
NextStage(r) ==
  /\ calls' = calls
  /\ UNCHANGED readVars
  /\ pc[r] = "decide"
  /\ should_continue[r]
  /\ stage[r] < NumStages
  /\ stage' = [stage EXCEPT ![r] = @ + 1]
  /\ Forward(r, ThinkingEvent(stage[r] + 1))
  /\ pc' = [pc EXCEPT ![r] = "call"]
  /\ NoteBegun(r)
  /\ UNCHANGED <<kernel_hard_stop, context, should_continue, saved, degraded,
                 after_stop>>

\* the generator is exhausted: after the stopped update, or after the poll
\* that follows the summary told it to continue
Exhausted(r) ==
  \/ pc[r] = "finish"
  \/ pc[r] = "decide" /\ should_continue[r] /\ stage[r] = NumStages

\* main.py 139-152: the result is handed to db_client.save_analysis
Finish(r) ==
  /\ UNCHANGED callVars
  /\ UNCHANGED readVars
  /\ Exhausted(r)
  /\ saved' = [saved EXCEPT ![r] =
       Append(@, Result(r, all_responses[r], final_kernel_decision[r]))]
  /\ pc' = [pc EXCEPT ![r] = "done"]
  /\ UNCHANGED <<kernel_hard_stop, current_agent, kernel_stop_history, stage,
                 context, should_continue, all_responses,
                 final_kernel_decision, stream, degraded, histVars>>

\* where code of generate() that is not guarded by a try of its own runs
\* next and can raise: the first progress print of the workflow
\* (workflow.py 73, before the first thinking update) and save_analysis'
\* truth test of the database handle (mongodb.py 49)
CanRaise(r) == pc[r] = "think" \/ Exhausted(r)

\* an except branch after which the generator goes on
FaultNoEnd(r) ==
  /\ UNCHANGED callVars
  /\ UNCHANGED readVars
  /\ CanRaise(r)
  /\ stream' = [stream EXCEPT ![r] = Append(@, ErrorEvent)]
  /\ UNCHANGED <<kernel_hard_stop, current_agent, kernel_stop_history, pc,
                 stage, context, should_continue, all_responses,
                 final_kernel_decision, saved, degraded, histVars>>

\* an except branch that yields the error update and tries the stage again
FaultRetry(r) ==
  /\ UNCHANGED callVars
  /\ UNCHANGED readVars
  /\ CanRaise(r)
  /\ stream' = [stream EXCEPT ![r] = Append(@, ErrorEvent)]
  /\ pc' = [pc EXCEPT ![r] = "call"]
  /\ UNCHANGED <<kernel_hard_stop, current_agent, kernel_stop_history, stage,
                 context, should_continue, all_responses,
                 final_kernel_decision, saved, degraded, histVars>>

\* main.py 154-161: an exception in generate() yields the error update;
\* after the workflow is exhausted it is save_analysis, called with the
\* result, that raised
Fault(r) ==
  /\ UNCHANGED callVars
  /\ UNCHANGED readVars
  /\ CanRaise(r)
  /\ saved' = [saved EXCEPT ![r] =
       IF Exhausted(r)
       THEN Append(@, Result(r, all_responses[r], final_kernel_decision[r]))
       ELSE @]
  /\ stream' = [stream EXCEPT ![r] = Append(@, ErrorEvent)]
  /\ pc' = [pc EXCEPT ![r] = "done"]
  /\ UNCHANGED <<kernel_hard_stop, current_agent, kernel_stop_history, stage,
                 context, should_continue, all_responses,
                 final_kernel_decision, degraded, histVars>>

\* a handler suspended between setting the flag and recording the event
KernelStopTorn(maxLedger) ==
  /\ calls' = [calls EXCEPT !.stop = @ + 1] /\ last_marked' = last_marked
  /\ UNCHANGED readVars
  /\ Len(kernel_stop_history) < maxLedger
  /\ kernel_hard_stop' = TRUE
  /\ NoteStop
  /\ UNCHANGED <<current_agent, kernel_stop_history, pc, stage, context,
                 should_continue, all_responses, final_kernel_decision, stream,
                 saved, degraded>>

\* POST /kernel/stop: main.py 63-77
KernelStop(maxLedger) ==
  /\ calls' = [calls EXCEPT !.stop = @ + 1] /\ last_marked' = last_marked
  /\ UNCHANGED readVars
  /\ Len(kernel_stop_history) < maxLedger
  /\ kernel_hard_stop' = TRUE
  /\ kernel_stop_history' = Append(kernel_stop_history,
       [action |-> "stop",
        stopped_agent |-> IF current_agent # None THEN current_agent
                          ELSE "Unknown",
        status |-> None])
  /\ NoteStop
  /\ UNCHANGED <<current_agent, pc, stage, context, should_continue,
                 all_responses, final_kernel_decision, stream, saved, degraded>>

\* a reset that records an event only when it changes the flag
KernelResetIfActive(maxLedger) ==
  /\ calls' = [calls EXCEPT !.reset = @ + 1] /\ last_marked' = last_marked
  /\ UNCHANGED readVars
  /\ Len(kernel_stop_history) < maxLedger
  /\ kernel_hard_stop' = FALSE
  /\ kernel_stop_history' =
       IF kernel_hard_stop
       THEN Append(kernel_stop_history,
              [action |-> "reset", stopped_agent |-> None, status |-> "deactivated"])
       ELSE kernel_stop_history
  /\ NoteCleared
  /\ UNCHANGED <<current_agent, pc, stage, context, should_continue,
                 all_responses, final_kernel_decision, stream, saved, degraded>>

\* a reset that starts the history afresh
KernelResetClears(maxLedger) ==
  /\ calls' = [calls EXCEPT !.reset = @ + 1] /\ last_marked' = last_marked
  /\ UNCHANGED readVars
  /\ Len(kernel_stop_history) < maxLedger
  /\ kernel_hard_stop' = FALSE
  /\ kernel_stop_history' =
       <<[action |-> "reset", stopped_agent |-> None, status |-> "deactivated"]>>
  /\ NoteCleared
  /\ UNCHANGED <<current_agent, pc, stage, context, should_continue,
                 all_responses, final_kernel_decision, stream, saved, degraded>>

\* a reset that records the event and leaves the flag as it is
KernelResetLogOnly(maxLedger) ==
  /\ calls' = [calls EXCEPT !.reset = @ + 1] /\ last_marked' = last_marked
  /\ UNCHANGED readVars
  /\ Len(kernel_stop_history) < maxLedger
  /\ kernel_stop_history' = Append(kernel_stop_history,
       [action |-> "reset", stopped_agent |-> None, status |-> "deactivated"])
  /\ NoteCleared
  /\ UNCHANGED <<kernel_hard_stop, current_agent, pc, stage, context,
                 should_continue, all_responses, final_kernel_decision, stream,
                 saved, degraded>>

\* POST /kernel/reset: main.py 79-93
KernelReset(maxLedger) ==
  /\ calls' = [calls EXCEPT !.reset = @ + 1] /\ last_marked' = last_marked
  /\ UNCHANGED readVars
  /\ Len(kernel_stop_history) < maxLedger
  /\ kernel_hard_stop' = FALSE
  /\ kernel_stop_history' = Append(kernel_stop_history,
       [action |-> "reset", stopped_agent |-> None, status |-> "deactivated"])
  /\ NoteCleared
  /\ UNCHANGED <<current_agent, pc, stage, context, should_continue,
                 all_responses, final_kernel_decision, stream, saved, degraded>>

\* GET /kernel/history: main.py 199-205, the answer in the current state
GetKernelHistory ==
  [history |-> kernel_stop_history, count |-> Len(kernel_stop_history)]

\* ------------------------------------------- the export of the history
\* strings of the export are sequences of characters
LowerCase == <<"a", "b", "c", "d", "e", "f", "g", "h", "i", "j", "k", "l", "m",
               "n", "o", "p", "q", "r", "s", "t", "u", "v", "w", "x", "y", "z">>
UpperCase == <<"A", "B", "C", "D", "E", "F", "G", "H", "I", "J", "K", "L", "M",
               "N", "O", "P", "Q", "R", "S", "T", "U", "V", "W", "X", "Y", "Z">>

IndexIn(c, alphabet) ==
  IF \E i \in DOMAIN alphabet : alphabet[i] = c
  THEN CHOOSE i \in DOMAIN alphabet : alphabet[i] = c
  ELSE 0

IsLetter(c) == IndexIn(c, LowerCase) > 0 \/ IndexIn(c, UpperCase) > 0
ToUpper(c) == IF IndexIn(c, LowerCase) > 0 THEN UpperCase[IndexIn(c, LowerCase)] ELSE c
ToLower(c) == IF IndexIn(c, UpperCase) > 0 THEN LowerCase[IndexIn(c, UpperCase)] ELSE c

\* the characters of the names the history holds
Chars(name) ==
  CASE name = "stop" -> <<"s", "t", "o", "p">>
    [] name = "reset" -> <<"r", "e", "s", "e", "t">>
    [] name = "analysis" -> <<"a", "n", "a", "l", "y", "s", "i", "s">>
    [] name = "research" -> <<"r", "e", "s", "e", "a", "r", "c", "h">>
    [] name = "critic" -> <<"c", "r", "i", "t", "i", "c">>
    [] name = "monitor" -> <<"m", "o", "n", "i", "t", "o", "r">>
    [] name = "summary" -> <<"s", "u", "m", "m", "a", "r", "y">>
    [] name = "system" -> <<"s", "y", "s", "t", "e", "m">>
    [] name = "Unknown" -> <<"U", "n", "k", "n", "o", "w", "n">>
    [] name = "N/A" -> <<"N", "/", "A">>
    [] OTHER -> <<>>

\* str.upper()
StrUpper(w) == [i \in 1..Len(w) |-> ToUpper(w[i])]

\* str.replace("_", " ")
StrReplace(w) == [i \in 1..Len(w) |-> IF w[i] = "_" THEN " " ELSE w[i]]

\* str.title(): a letter that follows no letter in upper case, every
\* other letter in lower case
StrTitle(w) ==
  [i \in 1..Len(w) |->
     IF i = 1 \/ ~IsLetter(w[i - 1]) THEN ToUpper(w[i]) ELSE ToLower(w[i])]

\* a third column that shows the stage as the history holds it
AgentColumnRaw(stopped_agent) == StrReplace(stopped_agent)

\* main.py 240: the third column of a stop row
AgentColumn(stopped_agent) ==
  IF stopped_agent # Chars("Unknown")
  THEN StrTitle(StrReplace(stopped_agent))
  ELSE Chars("Unknown")

\* GET /kernel/history/export: main.py 232-243, the data rows of the sheet
\* in the current state (the timestamp column is left out)
ExportKernelHistory ==
  [i \in 1..Len(kernel_stop_history) |->
     LET event == kernel_stop_history[i] IN
     [action |-> StrUpper(Chars(event.action)),
      agent |-> IF event.action = "stop"
                THEN AgentColumn(Chars(event.stopped_agent))
                ELSE Chars("N/A")]]

\* a query that takes the stop away once it has reported it
KernelCheckClears ==
  /\ answer' = Answer("kernel", IF kernel_hard_stop THEN "stop" ELSE "ok",
                      <<>>, 0, <<>>)
  /\ kernel_hard_stop' = FALSE
  /\ UNCHANGED <<current_agent, kernel_stop_history, pc, stage, context,
                 should_continue, all_responses, final_kernel_decision, stream,
                 saved, degraded, histVars, callVars>>

\* GET /kernel called by a client: main.py 52-61
KernelCheck ==
  /\ answer' = Answer("kernel", IF kernel_hard_stop THEN "stop" ELSE "ok",
                      <<>>, 0, <<>>)
  /\ UNCHANGED <<progVars, histVars, callVars>>

\* GET /kernel/history called by a client: main.py 199-205
KernelHistory ==
  /\ answer' = Answer("history", None, GetKernelHistory.history,
                      GetKernelHistory.count, <<>>)
  /\ UNCHANGED <<progVars, histVars, callVars>>

\* GET /kernel/history/export called by a client: main.py 207-262
KernelHistoryExport ==
  /\ answer' = Answer("export", None, <<>>, 0, ExportKernelHistory)
  /\ UNCHANGED <<progVars, histVars, callVars>>

RunStep(r, maxDegraded) ==
  \/ Start(r)
  \/ Thinking(r)
  \/ \E ok \in BOOLEAN : Generate(r, ok, maxDegraded)
  \/ \E ok \in BOOLEAN : Poll(r, ok)
  \/ Stopped(r)
  \/ NextStage(r)
  \/ Finish(r)
  \/ Fault(r)

\* one request served alone
Next ==
  \/ RunStep(1, MaxDegraded)
  \/ KernelStop(MaxLedger)
  \/ KernelReset(MaxLedger)

Spec == Init /\ [][Next]_vars

\* one request served alone while the generation service answers every
\* call and a client calls the reading handlers
NextRead ==
  \/ RunStep(1, 0)
  \/ KernelStop(MaxLedger)
  \/ KernelReset(MaxLedger)
  \/ KernelCheck
  \/ KernelHistory
  \/ KernelHistoryExport

SpecRead == Init /\ [][NextRead]_vars

\* two requests served concurrently, while the generation service answers
\* every call
NextTwo ==
  \/ \E r \in Runs : RunStep(r, 0)
  \/ KernelStop(MaxLedgerTwo)
  \/ KernelReset(MaxLedgerTwo)

SpecTwo == Init /\ [][NextTwo]_vars

\* two requests served concurrently while the generation service is down
\* and neither /kernel/stop nor /kernel/reset is called; each request
\* carries one of two problems
NextSame ==
  \E r \in Runs :
    \/ \E q \in Runs : StartWith(r, ProblemOf(q))
    \/ Thinking(r)
    \/ Generate(r, FALSE, Cardinality(Runs) * NumStages)
    \/ \E ok \in BOOLEAN : Poll(r, ok)
    \/ NextStage(r)
    \/ Finish(r)
    \/ Fault(r)

SpecSame == Init /\ [][NextSame]_vars

\* the steps of run r after its start: the event loop resumes generate()
\* whenever the frame was sent, the generation call returned or the poll
\* returned
Progress(r) ==
  \/ Thinking(r)
  \/ \E ok \in BOOLEAN : Generate(r, ok, MaxDegraded)
  \/ \E ok \in BOOLEAN : Poll(r, ok)
  \/ Stopped(r)
  \/ NextStage(r)
  \/ Finish(r)
  \/ Fault(r)

\* one request served alone, every generation call and every poll returns
SpecLive == Spec /\ WF_vars(Progress(1))

\* --------------------------------------------------- observing a stream
\* what an observer of the stream of run r tells apart in a frame
Shape(e) == <<e.agent, e.status, e.done>>

ShapeSeq(events) == [i \in 1..Len(events) |-> Shape(events[i])]

IsPrefix(s, t) == Len(s) <= Len(t) /\ \A i \in 1..Len(s) : s[i] = t[i]

\* the eleven frames of a run that is neither stopped nor faulted
FullRun ==
  << <<"system", "starting", FALSE>>,
     <<"analysis", "thinking", FALSE>>, <<"analysis", "complete", FALSE>>,
     <<"research", "thinking", FALSE>>, <<"research", "complete", FALSE>>,
     <<"critic", "thinking", FALSE>>, <<"critic", "complete", FALSE>>,
     <<"monitor", "thinking", FALSE>>, <<"monitor", "complete", FALSE>>,
     <<"summary", "thinking", FALSE>>, <<"summary", "complete", TRUE>> >>

Positions(r) == 1..Len(stream[r])
IsStopped(e) == e.status = "stopped"
IsError(e) == e.status = "error"
IsDone(e) == e.status = "complete" /\ e.done
IsTerminal(e) == IsStopped(e) \/ IsError(e) \/ IsDone(e)
HasStopped(r) == \E i \in Positions(r) : IsStopped(stream[r][i])
Faulted(r) == \E i \in Positions(r) : IsError(stream[r][i])
Last(events) == events[Len(events)]

\* /kernel/stop has never been called
NeverStopped ==
  \A i \in 1..Len(kernel_stop_history) : kernel_stop_history[i].action # "stop"

\* ----------------------------------------------------------------- C1
\* C1: in a run during which /kernel/stop is never called and generate()
\* raises no exception, the frames of the stream are, at every moment, the
\* first frames of the eleven-frame sequence starting, analysis
\* thinking/complete, research thinking/complete, critic thinking/complete,
\* monitor thinking/complete, summary thinking/complete(done), and when
\* the run has ended they are exactly those eleven.
C1_ElevenEvents ==
  \A r \in Runs :
    (NeverStopped /\ ~Faulted(r)) =>
      /\ IsPrefix(ShapeSeq(stream[r]), FullRun)
      /\ pc[r] = "done" => ShapeSeq(stream[r]) = FullRun

C1_Witness ==
  /\ pc[1] = "done"
  /\ NeverStopped
  /\ ~Faulted(1)
  /\ Len(stream[1]) = 11

C3_NoStageAfterStop ==
  \A r \in Runs : after_stop[r] \in {"armed", "seen"} => begun_after[r] = 0

\* C3 as amended: when /kernel/stop is called while a run is in flight and
\* the flag is not cleared afterwards (by /kernel/reset or by the start of
\* a run), at most one stage of that run begins after the call and before
\* the run's next poll (the call came before the first stage, or after the
\* preceding poll had been answered); and once that poll has been
\* answered, the run is halted: no further stage begins.
C3_AtMostOneStageAfterStop ==
  \A r \in Runs :
    /\ after_stop[r] \in {"armed", "seen"} => begun_after[r] <= 1
    /\ after_stop[r] = "seen" =>
         \/ pc[r] = "decide" /\ ~should_continue[r]
         \/ pc[r] \in {"finish", "done"}

C3_Witness ==
  \E r \in Runs :
    /\ after_stop[r] = "seen"
    /\ begun_after[r] = 1
    /\ pc[r] = "done"
    /\ HasStopped(r)

\* ----------------------------------------------------------------- C4
\* C4 as stated: the stream of a run holds at most one terminal frame
\* (done-marked summary/complete, stopped, error).
C4_AtMostOneTerminal ==
  \A r \in Runs :
    Cardinality({i \in Positions(r) : IsTerminal(stream[r][i])}) <= 1

\* C4 as amended: in the stream of a run, a terminal frame is followed by
\* nothing but terminal frames of another kind, in this order only: the
\* done-marked summary/complete can be followed at once by one stopped
\* frame naming summary, and the done-marked complete or the stopped frame
\* can be followed by one error frame, which is then the last frame. So a
\* run emits at most one done-marked complete, at most one stopped and at
\* most one error frame, never a stopped frame before a done-marked
\* complete and never anything after an error frame.
C4_TerminalOrder ==
  \A r \in Runs : \A i, j \in Positions(r) :
    (i < j /\ IsTerminal(stream[r][i])) =>
      \/ /\ IsDone(stream[r][i])
         /\ IsStopped(stream[r][j])
         /\ stream[r][j].stopped_agent = "summary"
         /\ j = i + 1
      \/ /\ IsDone(stream[r][i]) \/ IsStopped(stream[r][i])
         /\ IsError(stream[r][j])
         /\ j = Len(stream[r])

C4_Witness ==
  /\ Len(stream[1]) = 13
  /\ IsDone(stream[1][11])
  /\ IsStopped(stream[1][12])
  /\ IsError(stream[1][13])

\* ----------------------------------------------------------------- C5
\* the frames of r except the error frame of generate()
Body(r) ==
  IF Len(stream[r]) > 0 /\ IsError(Last(stream[r]))
  THEN SubSeq(stream[r], 1, Len(stream[r]) - 1)
  ELSE stream[r]

\* the first 2k+1 frames of the full run, then one stopped frame
CutShortAfter(k, events) ==
  /\ Len(events) = 2 * k + 2
  /\ IsPrefix(ShapeSeq(SubSeq(events, 1, 2 * k + 1)), FullRun)
  /\ IsStopped(Last(events))

\* C5 as stated: the stream of a run in which generate() raises nothing
\* is, at every moment, the beginning of: starting, the thinking/complete
\* pairs of analysis, research, critic, monitor in this order, and then
\* either one stopped frame right after the complete frame of one of
\* these four stages, or the thinking/complete(done) pair of the summary.
C5_Ordering ==
  \A r \in Runs :
    ~Faulted(r) =>
      \/ IsPrefix(ShapeSeq(stream[r]), FullRun)
      \/ \E k \in 1..(NumStages - 1) : CutShortAfter(k, stream[r])

\* C5 as amended: the frames of a run are, at every moment, the beginning
\* of: starting, then the thinking/complete pairs of analysis, research,
\* critic, monitor, summary in this order, cut short by one stopped frame
\* right after the complete frame of any of the five stages, the
\* done-marked complete of the summary included; the one other frame a
\* run can emit is a single error frame, as its last frame.
C5_OrderingWithSummaryStop ==
  \A r \in Runs :
    /\ \A i \in 1..Len(Body(r)) : ~IsError(Body(r)[i])
    /\ \/ IsPrefix(ShapeSeq(Body(r)), FullRun)
       \/ \E k \in 1..NumStages : CutShortAfter(k, Body(r))

C5_Witness ==
  /\ pc[1] = "done"
  /\ ~Faulted(1)
  /\ Len(stream[1]) = 12
  /\ IsDone(stream[1][11])
  /\ IsStopped(stream[1][12])

\* ----------------------------------------------------------------- C6
NumComplete(r) ==
  Cardinality({i \in Positions(r) : stream[r][i].status = "complete"})

\* C6: when every generation call and every poll returns, a run that has
\* started ends: its stream is closed after at most five generation calls
\* and its last frame is a done-marked summary/complete, a stopped or an
\* error frame.
C6_RunEnds ==
  \A r \in Runs :
    (pc[r] # "idle") ~>
      (/\ pc[r] = "done"
       /\ IsTerminal(Last(stream[r]))
       /\ NumComplete(r) <= 5)

C6_Witness ==
  /\ pc[1] = "done"
  /\ NumComplete(1) = 5
  /\ IsDone(Last(stream[1]))

\* ----------------------------------------------------------------- C7
\* C7: while a run is in flight and /kernel/stop has not been called since
\* its start, the flag is inactive, whatever was called before the start;
\* such a run emits no stopped frame, and unless generate() raises it ends
\* with the complete frames of all five stages.
C7_StartClearsStop ==
  \A r \in Runs :
    after_stop[r] = "no" =>
      /\ InFlight(r) => ~kernel_hard_stop
      /\ ~HasStopped(r)
      /\ (pc[r] = "done" /\ ~Faulted(r)) => NumComplete(r) = 5

C7_Witness ==
  \E r \in Runs :
    /\ ~NeverStopped
    /\ after_stop[r] = "no"
    /\ pc[r] = "decide" /\ stage[r] = 5 /\ should_continue[r]
    /\ NumComplete(r) = 5

\* ----------------------------------------------------------------- C8
\* /kernel/stop was called once and /kernel/reset never
OneStopNoReset ==
  /\ Len(kernel_stop_history) = 1
  /\ kernel_stop_history[1].action = "stop"

RECURSIVE ProblemsIn(_)
ProblemsIn(text) ==
  CASE text.kind = "llm" ->
         {text.prompt.problem} \cup
         UNION {ProblemsIn(text.prompt[f]) : f \in DOMAIN text.prompt \ {"problem"}}
    [] text.kind = "mock" ->
         IF Len(text.head) > 1 THEN {text.head[2]} ELSE {}
    [] text.kind = "first500" -> ProblemsIn(text.of)
    [] OTHER -> {}

\* C9: with two runs interleaved in any way, every stage output recorded
\* in the context of run r was made from r's own problem and from nothing
\* of the other run, under both keys the context keeps it; every complete
\* frame of r carries an output recorded in r's context, or is the summary
\* made from r's context; and what generate() collects for r is what r's
\* complete frames carry.
C9_RunIsolation ==
  \A r \in Runs :
    LET mine == {<<"problem", r>>}
        recorded == context[r].all_responses
    IN
    /\ pc[r] # "idle" => context[r].problem = <<"problem", r>>
    /\ DOMAIN context[r].top = DOMAIN recorded
    /\ \A key \in DOMAIN recorded :
         /\ ProblemsIn(recorded[key]) = mine
         /\ context[r].top[key] = recorded[key]
    /\ \A i \in Positions(r) :
         LET e == stream[r][i] IN
         IF e.status = "complete"
         THEN /\ e.agent \in DOMAIN all_responses[r]
              /\ all_responses[r][e.agent] = e.response
              /\ IF e.done
                 THEN ProblemsIn(e.response) = mine
                 ELSE \E key \in DOMAIN recorded : recorded[key] = e.response
         ELSE e.response = NoText
    /\ \A a \in DOMAIN all_responses[r] :
         \E i \in Positions(r) :
           stream[r][i].status = "complete" /\ stream[r][i].agent = a

C9_Witness ==
  \A r \in Runs :
    /\ pc[r] = "poll" /\ stage[r] = 5
    /\ DOMAIN context[r].all_responses =
         {"analysis", "research", "critique", "monitor"}
    /\ ProblemsIn(Last(stream[r]).response) = {<<"problem", r>>}

C11_CallSetsFlagAndAppends ==
  [][/\ calls'.stop # calls.stop =>
          /\ kernel_hard_stop'
          /\ Len(kernel_stop_history') = Len(kernel_stop_history) + 1
          /\ Last(kernel_stop_history').action = "stop"
     /\ calls'.reset # calls.reset =>
          /\ ~kernel_hard_stop'
          /\ Len(kernel_stop_history') = Len(kernel_stop_history) + 1
          /\ Last(kernel_stop_history').action = "reset"]_vars

\* /kernel/reset called twice while the flag was clear
C11_Witness ==
  /\ calls = [stop |-> 0, reset |-> 2]
  /\ ~kernel_hard_stop
  /\ Len(kernel_stop_history) = 2
  /\ \A i \in 1..2 : kernel_stop_history[i].action = "reset"

\* ---------------------------------------------------------------- C12
\* C12: the stop entry appended by /kernel/stop names the agent of the
\* latest thinking or complete update generate() has processed, for any
\* run, since the latest run start, and "Unknown" when there is none (the
\* pointer is cleared at a run's start and kept at its end).
C12_StopEntryNamesPointer ==
  [][calls'.stop # calls.stop =>
       /\ Last(kernel_stop_history').action = "stop"
       /\ Last(kernel_stop_history').stopped_agent =
            IF last_marked = None THEN "Unknown" ELSE last_marked]_vars

\* /kernel/stop called after the only run has ended: the entry names the
\* last stage
C12_Witness ==
  /\ pc[1] = "done" /\ pc[2] = "idle"
  /\ after_stop[1] = "no"
  /\ Len(kernel_stop_history) = 1
  /\ kernel_stop_history[1].action = "stop"
  /\ kernel_stop_history[1].stopped_agent = "summary"

\* ---------------------------------------------------------------- C13
\* main.py 123: the latest entry of the history is a stop entry
LastIsStop(history) ==
  Len(history) > 0 /\ history[Len(history)].action = "stop"

\* C13: the handlers of /kernel, /kernel/stop and /kernel/reset run
\* atomically: no step changes the flag without appending the matching
\* entry, unless it is a run start; after every call the flag is set iff
\* the latest entry is a stop entry, and every step that is not a run
\* start keeps that so; a poll reports a stop only while the flag is set.
C13_FlagMatchesLedger ==
  [][LET started == \E r \in Runs : pc[r] = "idle" /\ pc'[r] # "idle" IN
     /\ kernel_hard_stop' # kernel_hard_stop =>
          \/ started
          \/ /\ Len(kernel_stop_history') = Len(kernel_stop_history) + 1
             /\ Last(kernel_stop_history').action =
                  IF kernel_hard_stop' THEN "stop" ELSE "reset"
     /\ calls' # calls =>
          (kernel_hard_stop' <=> LastIsStop(kernel_stop_history'))
     /\ (~started /\ (kernel_hard_stop <=> LastIsStop(kernel_stop_history))) =>
          (kernel_hard_stop' <=> LastIsStop(kernel_stop_history'))
     /\ \A r \in Runs :
          (pc[r] = "poll" /\ pc'[r] = "decide" /\ ~should_continue'[r]) =>
            kernel_hard_stop]_vars

\* a stop and then a reset were called while the run was in flight, and a
\* poll was answered after them
C13_Witness ==
  /\ Len(kernel_stop_history) = 2
  /\ kernel_stop_history[1].action = "stop"
  /\ kernel_stop_history[2].action = "reset"
  /\ ~kernel_hard_stop
  /\ after_stop[1] = "cleared"
  /\ pc[1] = "decide" /\ should_continue[1]

\* ---------------------------------------------------------------- C14
\* C14: a stage in flight is never cut short: a thinking frame is followed
\* by the complete frame of the same stage, carrying a response, before
\* anything else of that run, whether or not /kernel/stop is called in
\* between; a stopped frame comes right after a complete frame; and the
\* run polls /kernel only when its latest frame is a complete frame.
C14_NoPreemption ==
  \A r \in Runs :
    /\ \A i \in Positions(r) :
         /\ stream[r][i].status = "thinking" =>
              IF i = Len(stream[r])
              THEN pc[r] = "call"
              ELSE /\ stream[r][i + 1].status = "complete"
                   /\ stream[r][i + 1].agent = stream[r][i].agent
                   /\ stream[r][i + 1].response # NoText
         /\ IsStopped(stream[r][i]) =>
              i > 1 /\ stream[r][i - 1].status = "complete"
    /\ pc[r] \in {"poll", "decide"} =>
         Len(stream[r]) > 0 /\ Last(stream[r]).status = "complete"
    /\ pc[r] = "call" => Last(stream[r]).status = "thinking"

\* /kernel/stop was called while the generation call of the second stage
\* is in progress
C14_Witness ==
  /\ pc[1] = "call" /\ stage[1] = 2
  /\ kernel_hard_stop
  /\ after_stop[1] = "armed" /\ begun_after[1] = 0
  /\ Last(stream[1]).status = "thinking"
  /\ ~HasStopped(1)

\* ---------------------------------------------------------------- C15
\* the frames of run r that carry the fallback text
Fallbacks(r) == {i \in Positions(r) : stream[r][i].response.kind = "mock"}

\* C15: every generation call in which the service fails shows as one
\* ordinary complete frame carrying the fallback text: it follows the
\* thinking frame of its stage, is done-marked only for the summary, is
\* recorded in the context and collected like any response, and the run
\* goes on from it as from any complete frame: to the poll, then to the
\* thinking frame of the next stage or to the stopped frame naming this
\* stage. No error frame follows it, except after the summary, when saving
\* the result raises.
C15_FallbackIsOrdinary ==
  /\ Cardinality(Fallbacks(1)) = degraded
  /\ \A r \in Runs : \A i \in Fallbacks(r) :
       LET e == stream[r][i] IN
       /\ e.status = "complete"
       /\ i > 1
       /\ stream[r][i - 1].status = "thinking"
       /\ stream[r][i - 1].agent = e.agent
       /\ e.done = (e.agent = "summary")
       /\ e.agent \in DOMAIN all_responses[r]
       /\ all_responses[r][e.agent] = e.response
       /\ e.agent # "summary" =>
            \E key \in DOMAIN context[r].all_responses :
              /\ context[r].all_responses[key] = e.response
              /\ context[r].top[key] = e.response
       /\ IF i = Len(stream[r])
          THEN \/ pc[r] \in {"poll", "decide"}
               \/ pc[r] = "done" /\ e.agent = "summary"
          ELSE LET n == stream[r][i + 1] IN
               \/ /\ n.status = "thinking"
                  /\ \E k \in 1..(NumStages - 1) :
                       StageAgent[k] = e.agent /\ StageAgent[k + 1] = n.agent
               \/ IsStopped(n) /\ n.stopped_agent = e.agent
               \/ IsError(n) /\ e.agent = "summary"

\* the first stage fell back and the run went through all five stages
C15_Witness ==
  /\ pc[1] = "done"
  /\ degraded = 1
  /\ Fallbacks(1) = {3}
  /\ Len(stream[1]) = 11
  /\ IsDone(Last(stream[1]))

\* ---------------------------------------------------------------- C16
\* C16: an error frame is the last frame of its stream and the run has
\* ended with it: the stream holds one error frame at most, and no
\* thinking, complete or stopped frame, hence no stage and no second
\* attempt, comes after it.
C16_ErrorEndsStream ==
  \A r \in Runs : \A i \in Positions(r) :
    IsError(stream[r][i]) =>
      /\ i = Len(stream[r])
      /\ pc[r] = "done"
      /\ stream[r][i].agent = "error"
      /\ \A j \in Positions(r) : IsError(stream[r][j]) => j = i

\* the exception was raised before the first stage
C16_Witness ==
  /\ pc[1] = "done"
  /\ Len(stream[1]) = 2
  /\ stream[1][1].status = "starting"
  /\ IsError(stream[1][2])
  /\ saved[1] = NotSaved

\* ---------------------------------------------------------------- C17
\* C17: the history only grows at its end: no step shortens it or changes
\* the action of an entry at its place; and in every state the count that
\* /kernel/history answers is the length of the history it answers, which
\* is the number of calls of /kernel/stop and /kernel/reset made so far.
C17_AppendOnly ==
  /\ [](/\ GetKernelHistory.history = kernel_stop_history
        /\ GetKernelHistory.count = Len(kernel_stop_history)
        /\ GetKernelHistory.count = calls.stop + calls.reset)
  /\ [][/\ Len(kernel_stop_history') >= Len(kernel_stop_history)
        /\ \A i \in 1..Len(kernel_stop_history) :
             kernel_stop_history'[i].action = kernel_stop_history[i].action]_vars

C17_Witness ==
  /\ pc[1] = "done"
  /\ calls = [stop |-> 1, reset |-> 1]
  /\ GetKernelHistory.count = 2
  /\ kernel_stop_history[1].action = "stop"
  /\ kernel_stop_history[2].action = "reset"
  /\ HasStopped(1)

\* ---------------------------------------------------------------- C18
\* C18: when a run emits its stopped frame and the latest entry of the
\* history is a stop entry, that entry then names the stage the stopped
\* frame names.
C18_StopAttribution ==
  [][\A r \in Runs :
       (/\ Len(stream'[r]) = Len(stream[r]) + 1
        /\ IsStopped(Last(stream'[r]))
        /\ LastIsStop(kernel_stop_history)) =>
         Last(kernel_stop_history').stopped_agent =
           Last(stream'[r]).stopped_agent]_vars

\* ---------------------------------------------------------------- C19
\* the export's spelling of a stage name
Capitalized(name) ==
  CASE name = "analysis" -> <<"A", "n", "a", "l", "y", "s", "i", "s">>
    [] name = "research" -> <<"R", "e", "s", "e", "a", "r", "c", "h">>
    [] name = "critic" -> <<"C", "r", "i", "t", "i", "c">>
    [] name = "monitor" -> <<"M", "o", "n", "i", "t", "o", "r">>
    [] name = "summary" -> <<"S", "u", "m", "m", "a", "r", "y">>
    [] OTHER -> <<"U", "n", "k", "n", "o", "w", "n">>

\* C19: the export has one data row per entry of the history, in order; a
\* stop row reads STOP and the entry's stage with its words capitalized
\* (underscores become spaces; "Unknown" for an entry without a stage), a
\* reset row reads RESET and N/A; for a stop entry of research followed by
\* a reset entry the rows are (STOP, Research), (RESET, N/A).
C19_ExportRows ==
  LET rows == ExportKernelHistory IN
  /\ Len(rows) = Len(kernel_stop_history)
  /\ \A i \in 1..Len(kernel_stop_history) :
       IF kernel_stop_history[i].action = "stop"
       THEN /\ rows[i].action = <<"S", "T", "O", "P">>
            /\ rows[i].agent = Capitalized(kernel_stop_history[i].stopped_agent)
       ELSE /\ rows[i].action = <<"R", "E", "S", "E", "T">>
            /\ rows[i].agent = <<"N", "/", "A">>
  /\ AgentColumn(<<"f", "i", "n", "a", "l", "_", "r", "a", "t", "i", "n", "g", "s">>)
       = <<"F", "i", "n", "a", "l", " ", "R", "a", "t", "i", "n", "g", "s">>
  /\ (/\ Len(kernel_stop_history) = 2
      /\ kernel_stop_history[1].action = "stop"
      /\ kernel_stop_history[1].stopped_agent = "research"
      /\ kernel_stop_history[2].action = "reset") =>
       rows = << [action |-> <<"S", "T", "O", "P">>,
                  agent |-> <<"R", "e", "s", "e", "a", "r", "c", "h">>],
                 [action |-> <<"R", "E", "S", "E", "T">>,
                  agent |-> <<"N", "/", "A">>] >>

C19_Witness ==
  /\ Len(kernel_stop_history) = 2
  /\ kernel_stop_history[1].action = "stop"
  /\ kernel_stop_history[1].stopped_agent = "research"
  /\ kernel_stop_history[2].action = "reset"
  /\ Len(ExportKernelHistory) = 2

\* ---------------------------------------------------------------- C20
\* the frames of run r with the given status for stage k
FramesOf(r, k, status) ==
  {i \in Positions(r) :
     stream[r][i].status = status /\ stream[r][i].agent = StageAgent[k]}

\* C20: in a run every stage is begun and its generation call answered at
\* most once, and exactly once in a run that ends neither stopped nor
\* faulted; and a key of the run context, once written, keeps its value.
C20_EachStageOnce ==
  /\ [](\A r \in Runs : \A k \in 1..NumStages :
          /\ Cardinality(FramesOf(r, k, "thinking")) <= 1
          /\ Cardinality(FramesOf(r, k, "complete")) <= 1
          /\ (pc[r] = "done" /\ ~HasStopped(r) /\ ~Faulted(r)) =>
               Cardinality(FramesOf(r, k, "complete")) = 1)
  /\ [][\A r \in Runs :
          /\ \A key \in DOMAIN context[r].all_responses :
               /\ key \in DOMAIN context'[r].all_responses
               /\ context'[r].all_responses[key] = context[r].all_responses[key]
          /\ \A key \in DOMAIN context[r].top :
               /\ key \in DOMAIN context'[r].top
               /\ context'[r].top[key] = context[r].top[key]]_vars

\* the summary fell back and was not tried again
C20_Witness ==
  /\ pc[1] = "done"
  /\ ~HasStopped(1) /\ ~Faulted(1)
  /\ degraded = 1
  /\ Fallbacks(1) = {11}
  /\ DOMAIN context[1].all_responses =
       {"analysis", "research", "critique", "monitor"}

\* ---------------------------------------------------------------- C21
\* the response of the complete frame of stage k in the stream of run r
\* (NoText when the stream has none)
ResponseOf(r, k) ==
  IF FramesOf(r, k, "complete") = {} THEN NoText
  ELSE stream[r][CHOOSE i \in FramesOf(r, k, "complete") : TRUE].response

PriorKeys == {ContextKey[k] : k \in 1..(NumStages - 1)}

\* C21: whenever the generation call of the summary stage of a run is
\* started, the context of that run holds under analysis, research,
\* critique and monitor the responses of the complete frames of the first
\* four stages of that run; and the prompt the summary call is given holds
\* the run's problem and exactly those four recorded responses (the fifth
\* slot, ratings, is never recorded and reads N/A).
C21_SummaryInput ==
  \A r \in Runs :
    /\ (stage[r] = NumStages /\ pc[r] # "idle") =>
         /\ PriorKeys \subseteq DOMAIN context[r].all_responses
         /\ \A k \in 1..(NumStages - 1) :
              /\ ResponseOf(r, k) # NoText
              /\ context[r].all_responses[ContextKey[k]] = ResponseOf(r, k)
    /\ (ResponseOf(r, NumStages) # NoText
        /\ ResponseOf(r, NumStages).kind = "llm") =>
         ResponseOf(r, NumStages).prompt =
           [problem |-> context[r].problem,
            analysis |-> ResponseOf(r, 1), research |-> ResponseOf(r, 2),
            critique |-> ResponseOf(r, 3), monitor |-> ResponseOf(r, 4),
            ratings |-> NA]

C21_Witness ==
  /\ pc[1] = "poll"
  /\ stage[1] = NumStages
  /\ ResponseOf(1, NumStages).kind = "llm"
  /\ ResponseOf(1, 3).kind = "mock"

\* ---------------------------------------------------------------- C22
\* the responses of the complete frames of run r, by agent
EmittedResponses(r) ==
  [a \in {stream[r][i].agent : i \in {j \in Positions(r) :
                                        stream[r][j].status = "complete"}}
     |-> stream[r][CHOOSE i \in Positions(r) :
                     stream[r][i].status = "complete"
                     /\ stream[r][i].agent = a].response]

\* the workflow of run r ran to its end: stopped, or past the summary
RanOut(r) ==
  HasStopped(r) \/ \E i \in Positions(r) : IsDone(stream[r][i])

\* C22: save_analysis is never called while a run is going on; when the
\* run has ended it has been called exactly once if the workflow ran to
\* its end (a stopped frame or the done-marked summary/complete was
\* emitted) and never if the error frame came before that; the result it
\* was given has the run's problem, status "stopped" if the run emitted a
\* stopped frame and "completed" otherwise, and as responses exactly the
\* responses of the complete frames the run emitted.
C22_SavedOnce ==
  \A r \in Runs :
    /\ pc[r] # "done" => saved[r] = <<>>
    /\ pc[r] = "done" => Len(saved[r]) = (IF RanOut(r) THEN 1 ELSE 0)
    /\ Len(saved[r]) > 0 =>
         /\ saved[r][1].problem = context[r].problem
         /\ saved[r][1].status = (IF HasStopped(r) THEN "stopped" ELSE "completed")
         /\ saved[r][1].responses = EmittedResponses(r)

\* stopped after the summary: five responses stored, status "stopped"
C22_Witness ==
  /\ pc[1] = "done"
  /\ ~Faulted(1)
  /\ Len(saved[1]) = 1
  /\ saved[1][1].status = "stopped"
  /\ DOMAIN saved[1][1].responses =
       {"analysis", "research", "critic", "monitor", "summary"}

\* ---------------------------------------------------------------- C23
\* what an update carries under a numeric key
Carried(update, key) == IF key \in DOMAIN update THEN update[key] ELSE Absent

\* the frames of run r that carry a stage number
NumberedFrames(r) == {i \in Positions(r) : stream[r][i].stage # Absent}

\* C23 as stated: every frame of a run carries a sequence number, and the
\* sequence numbers of a run increase strictly in the order of emission.
C23_SequenceNumbers ==
  \A r \in Runs :
    /\ \A i \in Positions(r) : Carried(stream[r][i], "sequence_number") # Absent
    /\ \A i, j \in Positions(r) :
         i < j => Carried(stream[r][i], "sequence_number")[1]
                    < Carried(stream[r][j], "sequence_number")[1]

\* C23 as amended: the frames of a run carry no sequence number; they are
\* ordered by their place in the stream alone.  The numbers a frame can
\* carry are "stage" and "iteration": the thinking and the complete frame
\* of a stage carry the stage's number 1..5 (the same number on both) and,
\* but for the summary, the iteration 1; starting, stopped and error
\* frames carry neither.  Stage numbers never decrease along the stream:
\* from a numbered frame to the next the number rises by one to a thinking
\* frame and stays the same to a complete frame.
C23_StageNumbers ==
  \A r \in Runs :
    /\ \A i \in Positions(r) :
         LET e == stream[r][i] IN
         /\ Carried(e, "sequence_number") = Absent
         /\ IF e.status \in {"thinking", "complete"}
            THEN /\ \E k \in 1..NumStages :
                      /\ e.stage = <<k>>
                      /\ StageAgent[k] = e.agent
                      /\ e.iteration = (IF k < NumStages THEN <<1>> ELSE Absent)
            ELSE e.stage = Absent /\ e.iteration = Absent
    /\ \A i, j \in NumberedFrames(r) :
         /\ i < j => stream[r][i].stage[1] <= stream[r][j].stage[1]
         /\ (i < j /\ \A m \in NumberedFrames(r) : ~(i < m /\ m < j)) =>
              stream[r][j].stage[1] - stream[r][i].stage[1] =
                (IF stream[r][j].status = "thinking" THEN 1 ELSE 0)

\* two frames with the same number, and frames with none
C23_Witness ==
  /\ pc[1] = "done"
  /\ Len(stream[1]) = 7
  /\ stream[1][1].stage = Absent
  /\ stream[1][4].stage = <<2>> /\ stream[1][5].stage = <<2>>
  /\ stream[1][6].status = "stopped" /\ stream[1][6].stage = Absent
  /\ stream[1][7].status = "error" /\ stream[1][7].stage = Absent

\* ---------------------------------------------------------------- C24
\* every generation call of run r so far fell back
AllFallbacks(r) ==
  \A i \in Positions(r) :
    stream[r][i].status = "complete" => stream[r][i].response.kind = "mock"

Steps(r) == pc'[r] # pc[r]

C26_DecisionTags ==
  \A r \in Runs : \A i \in Positions(r) :
    LET e == stream[r][i] IN
    /\ e.kernel_decision \in {None, "N", "L"}
    /\ e.kernel_decision = "L" <=> IsStopped(e)
    /\ e.kernel_decision = "N" <=> (IsDone(e) /\ e.agent = "summary")
    /\ IsDone(e) <=> (e.status = "complete" /\ e.agent = "summary")

\* all the kinds of frame in one stream
C26_Witness ==
  /\ Len(stream[1]) = 13
  /\ stream[1][1].status = "starting" /\ stream[1][1].kernel_decision = None
  /\ stream[1][9].agent = "monitor" /\ stream[1][9].kernel_decision = None
  /\ stream[1][11].kernel_decision = "N"
  /\ stream[1][12].kernel_decision = "L"
  /\ IsError(stream[1][13]) /\ stream[1][13].kernel_decision = None

\* ---------------------------------------------------------------- C27
\* C27: a poll that fails tells the run to continue, whatever the flag: a
\* poll made while the flag is clear always does, and so does a poll that
\* fails after /kernel/stop was called with the flag still set; the run
\* then goes on to the thinking frame of the next stage.  A run is told
\* to stop, and a stopped frame is emitted, only after a poll of the run
\* was answered while the flag was set.
C27_FailOpen ==
  /\ [](\A r \in Runs :
          /\ (InFlight(r) /\ ~should_continue[r]) => after_stop[r] = "seen"
          /\ HasStopped(r) => after_stop[r] = "seen")
  /\ [][\A r \in Runs :
          /\ (pc[r] = "poll" /\ Steps(r)) =>
               /\ pc'[r] = "decide"
               /\ ~kernel_hard_stop => should_continue'[r]
               /\ after_stop'[r] = "failed" =>
                    kernel_hard_stop /\ should_continue'[r]
               /\ ~should_continue'[r] => kernel_hard_stop
          /\ (pc[r] = "decide" /\ should_continue[r] /\ stage[r] < NumStages
              /\ Steps(r)) =>
               /\ stream'[r] = Append(stream[r], ThinkingEvent(stage[r] + 1))
               /\ pc'[r] = "call"
          /\ (stream'[r] # stream[r] /\ IsStopped(Last(stream'[r]))) =>
               pc[r] = "decide" /\ ~should_continue[r]
     ]_vars

\* the flag was set during the run and every poll since has failed: the
\* run went through all its stages
C27_Witness ==
  /\ pc[1] = "done"
  /\ after_stop[1] = "failed"
  /\ kernel_hard_stop
  /\ ~HasStopped(1) /\ ~Faulted(1)
  /\ NumComplete(1) = NumStages
  /\ Len(saved[1]) = 1 /\ saved[1][1].status = "completed"

\* ---------------------------------------------------------------- C28
\* C28: the start of a run leaves the flag clear and the current agent
\* unset and appends nothing to the history (the history holds one entry
\* for each call of /kernel/stop and /kernel/reset and nothing else).  A
\* run in flight that had not polled since /kernel/stop was called is
\* thereby let go on: as long as the flag stays clear it is not told to
\* stop and emits no stopped frame, and it goes through all its stages.
C28_StartErasesStop ==
  /\ [](/\ Len(kernel_stop_history) = calls.stop + calls.reset
        /\ current_agent = last_marked
        /\ \A r \in Runs :
             (InFlight(r) /\ after_stop[r] = "cleared") =>
               /\ ~kernel_hard_stop
               /\ should_continue[r]
               /\ ~HasStopped(r))
  /\ [][\A r \in Runs :
          (pc[r] = "idle" /\ Steps(r)) =>
            /\ ~kernel_hard_stop'
            /\ current_agent' = None
            /\ kernel_stop_history' = kernel_stop_history
            /\ \A q \in Runs :
                 (InFlight(q) /\ after_stop[q] = "armed") =>
                   after_stop'[q] = "cleared"
     ]_vars

\* run 2 started while run 1 had not polled since the one call of
\* /kernel/stop; run 1 went through all its stages
C28_Witness ==
  /\ OneStopNoReset
  /\ pc[2] # "idle"
  /\ after_stop[1] = "cleared"
  /\ pc[1] = "done"
  /\ ShapeSeq(stream[1]) = FullRun
  /\ ~kernel_hard_stop

\* ---------------------------------------------------------------- C29
\* C29: whenever the flag is set, the history is not empty and its latest
\* entry is a stop entry.
C29_ActiveMeansLastIsStop ==
  kernel_hard_stop => LastIsStop(kernel_stop_history)

\* the flag is set again after a reset; and the converse fails once the
\* start of a run has cleared the flag
C29_Witness ==
  /\ kernel_hard_stop
  /\ Len(kernel_stop_history) = 2
  /\ kernel_stop_history[1].action = "reset"
  /\ pc[1] = "call"

\* ---------------------------------------------------------------- C30
\* C30: in an execution with one run, one call of /kernel/stop and no
\* call of /kernel/reset, when the run has emitted its stopped frame the
\* stopped_agent of the history's stop entry is the stopped_agent of that
\* frame, whenever the call was made.
C30_AttributionAgrees ==
  (/\ calls = [stop |-> 1, reset |-> 0]
   /\ HasStopped(1)) =>
     \A i \in Positions(1) :
       IsStopped(stream[1][i]) =>
         kernel_stop_history[1].stopped_agent = stream[1][i].stopped_agent

\* ---------------------------------------------------------------- C31
\* C31: the poll of a run and the step that emits its stopped frame leave
\* the flag and the history as they are; the only step of a run that
\* writes the flag is its start, which clears it.  So once the flag is
\* set it stays set, whatever runs halt on it, until /kernel/reset is
\* called or a run starts.
C31_HaltKeepsStop ==
  [][/\ \A r \in Runs :
          /\ (pc[r] \in {"poll", "decide"} /\ Steps(r)) =>
               /\ kernel_hard_stop' = kernel_hard_stop
               /\ kernel_stop_history' = kernel_stop_history
          /\ (Steps(r) /\ kernel_hard_stop' # kernel_hard_stop) =>
               pc[r] = "idle" /\ ~kernel_hard_stop'
     /\ (kernel_hard_stop /\ ~kernel_hard_stop') =>
          \/ calls'.reset = calls.reset + 1
          \/ \E r \in Runs : pc[r] = "idle" /\ Steps(r)
    ]_vars

\* both runs have halted on the one call of /kernel/stop, and the flag is
\* still set
C31_Witness ==
  /\ OneStopNoReset
  /\ \A r \in Runs : pc[r] = "done" /\ HasStopped(r)
  /\ kernel_hard_stop

\* ---------------------------------------------------------------- C32
\* a client has got an answer from a reading handler
Reads == answer' # answer

\* C32: GET /kernel, GET /kernel/history and the export leave the flag,
\* the current agent and the history (its length and every entry) as they
\* are, and nothing of a run either; GET /kernel answers "stop" exactly
\* when the flag is set at the call, GET /kernel/history answers the
\* history with its length, and the export has one row for each entry.
C32_ReadOnly ==
  [][Reads =>
       /\ kernel_hard_stop' = kernel_hard_stop
       /\ current_agent' = current_agent
       /\ kernel_stop_history' = kernel_stop_history
       /\ UNCHANGED <<pc, stream, saved, calls>>
       /\ answer'.kind = "kernel" =>
            /\ answer'.status \in {"ok", "stop"}
            /\ answer'.status = "stop" <=> kernel_hard_stop
       /\ answer'.kind = "history" =>
            /\ answer'.history = kernel_stop_history
            /\ answer'.count = Len(kernel_stop_history)
       /\ answer'.kind = "export" =>
            Len(answer'.rows) = Len(kernel_stop_history)
    ]_vars

\* the run has halted on a stop that followed a reset, the flag is still
\* set, and a client that asks is told "stop"
C32_Witness ==
  /\ answer.kind = "kernel" /\ answer.status = "stop"
  /\ kernel_hard_stop
  /\ current_agent = "analysis"
  /\ Len(kernel_stop_history) = 2
  /\ HasStopped(1)

====
